---- MODULE Spec2Model ----
(***************************************************************************)
(* Model of xdress/typefilter.py: the helpers _flatten and _match_anywhere *)
(* and the plugin's setup / execute / _modify_class_desc.                  *)
(*                                                                         *)
(* Python values are encoded uniformly as records [tag, val, els]:         *)
(*   str   : val is the sequence of its characters                         *)
(*   int   : val is the one-element sequence holding its digits            *)
(*   tuple : els is the sequence of its elements                           *)
(*   list  : els is the sequence of its elements                           *)
(* A dict is a sequence of [key, value]-like records in insertion order.   *)
(***************************************************************************)
EXTENDS Integers, Sequences, FiniteSets, TLC

VARIABLES
  t,            \* helper runs: the candidate type expression
  tm,           \* helper runs: the matcher
  flat,         \* helper runs: what _flatten(t) returned
  res,          \* helper runs: what tm._match_anywhere(t) returned
  fpc,          \* helper runs: position
  rc_skiptypes, \* rc.skiptypes
  rc_env,       \* rc.env
  pc,           \* plugin run: position
  todo,         \* plugin run: entities execute has still to visit
  passes,       \* plugin run: number of execute calls started
  env0,         \* rc.env as the description plugins left it
  envPrev,      \* rc.env when the current execute call started
  strict        \* plugin run: whether TypeMatcher builds strict matchers

vars == <<t, tm, flat, res, fpc,
          rc_skiptypes, rc_env, pc, todo, passes, env0, envPrev, strict>>

fn_vars == <<t, tm, flat, res, fpc>>

plugin_vars == <<rc_skiptypes, rc_env, pc, todo, passes, env0, envPrev, strict>>

----------------------------------------------------------------------------
(* Python values *)

Str(s) == [tag |-> "str", val |-> s, els |-> <<>>]

PyInt(d) == [tag |-> "int", val |-> <<d>>, els |-> <<>>]

Tup(es) == [tag |-> "tuple", val |-> <<>>, els |-> es]

PyList(es) == [tag |-> "list", val |-> <<>>, els |-> es]

\* a value no call has produced yet
NotCalled == [tag |-> "notcalled", val |-> <<>>, els |-> <<>>]

\* isinstance(x, (list, tuple))
is_list_or_tuple(x) == x.tag \in {"list", "tuple"}

\* isinstance(x, str)
is_str(x) == x.tag = "str"

\* what "for el in x" visits: the elements of a list or tuple, the
\* one-character strings of a str; any other value is not iterable
is_iterable(x) == x.tag \in {"list", "tuple", "str"}

iter_items(x) ==
  IF is_list_or_tuple(x) THEN x.els
  ELSE [i \in 1..Len(x.val) |-> Str(<<x.val[i]>>)]

----------------------------------------------------------------------------
(* Bounds and the universe of type expressions *)

MaxDepth == 2

MaxLen == 2

F64 == Str(<<"f", "6", "4">>)

Zero == PyInt("0")

Leaves == {F64, Zero}

SeqsUpTo(S, n) == UNION {[1..k -> S] : k \in 1..n}

RECURSIVE TypeExprs(_)
TypeExprs(d) ==
  IF d = 0 THEN Leaves
  ELSE Leaves \cup {Tup(es) : es \in SeqsUpTo(TypeExprs(d - 1), MaxLen)}

\* the leaves of a type expression, by structural descent (what the
\* documentation calls "appears anywhere in the argument description")
RECURSIVE LeavesOf(_)
LeavesOf(x) ==
  IF is_list_or_tuple(x)
  THEN UNION {LeavesOf(x.els[i]) : i \in 1..Len(x.els)}
  ELSE {x}

----------------------------------------------------------------------------
(* _flatten *)

RECURSIVE _flatten(_)

\* a loop that appends every element as it is, nested or not
flatten_loop_shallow(items) == items

RECURSIVE flatten_loop(_)
flatten_loop(items) ==
  IF items = <<>> THEN <<>>
  ELSE LET el == Head(items) IN
       (IF is_list_or_tuple(el) THEN _flatten(el).els ELSE <<el>>)
         \o flatten_loop(Tail(items))

_flatten(iterable) ==
  IF is_iterable(iterable)
  THEN PyList(flatten_loop(iter_items(iterable)))
  ELSE iterable

----------------------------------------------------------------------------
(* TypeMatcher (xdress/typesystem.py): exact comparison with the pattern.  *)
(* A matcher built in strict mode cannot evaluate a candidate whose shape  *)
(* differs from its pattern's and raises TypeError on it.                  *)

TypeMatcher(pattern, is_strict) == [pattern |-> pattern, strict |-> is_strict]

matches(self, x) ==
  IF self.strict /\ x.tag # self.pattern.tag THEN "TypeError"
  ELSE IF x = self.pattern THEN "True"
  ELSE "False"

----------------------------------------------------------------------------
(* _match_anywhere *)

\* any([self.matches(i) for i in items]): the list is built first, so an
\* exception of any call escapes
RECURSIVE any_matches(_, _)
any_matches(self, items) ==
  IF items = <<>> THEN "False"
  ELSE LET r == matches(self, Head(items))
           rest == any_matches(self, Tail(items))
       IN IF r = "TypeError" \/ rest = "TypeError" THEN "TypeError"
          ELSE IF r = "True" \/ rest = "True" THEN "True"
          ELSE "False"

\* the call without its first test of the whole candidate
_match_anywhere_leaves_only(self, x) ==
  IF is_str(x) THEN matches(self, x)
  ELSE IF is_list_or_tuple(x) THEN any_matches(self, _flatten(x).els)
  ELSE "None"

_match_anywhere(self, x) ==
  LET r == matches(self, x) IN
  IF r = "True" THEN "True"
  ELSE IF r = "TypeError" THEN "None"
  ELSE IF is_str(x) THEN matches(self, x)
  ELSE IF is_list_or_tuple(x) THEN any_matches(self, _flatten(x).els)
  ELSE "None"

----------------------------------------------------------------------------
(* Dicts: sequences of [key, value] items in insertion order *)

\* a deletion that drops the first item, whatever the key
del_first_item(d, k) == IF d = <<>> THEN d ELSE Tail(d)

\* del d[k]
del_item(d, k) == SelectSeq(d, LAMBDA e : e.key # k)

items_of(d) == {d[i] : i \in 1..Len(d)}

keys_of(d) == {d[i].key : i \in 1..Len(d)}

----------------------------------------------------------------------------
(* XDressPlugin._modify_class_desc *)

\* for tm in skips: if tm._match_anywhere(x): ... break
RECURSIVE first_match(_, _)
first_match(skips, x) ==
  IF skips = <<>> THEN "False"
  ELSE LET r == _match_anywhere(Head(skips), x) IN
       IF r \in {"True", "TypeError"} THEN r
       ELSE first_match(Tail(skips), x)

\* the attribute loop with its del outside the test: every attribute goes
attrs_loop_del_unconditional(items, skips, attrs) ==
  [d |-> <<>>, raised |-> FALSE]

\* for at_name, at_t in desc['attrs'].copy().items(): ...
\* items is what is left of the copy, attrs is desc['attrs']
RECURSIVE attrs_loop(_, _, _)
attrs_loop(items, skips, attrs) ==
  IF items = <<>> THEN [d |-> attrs, raised |-> FALSE]
  ELSE LET r == first_match(skips, Head(items).value) IN
       IF r = "TypeError" THEN [d |-> attrs, raised |-> TRUE]
       ELSE IF r = "True"
            THEN attrs_loop(Tail(items), skips, del_item(attrs, Head(items).key))
            ELSE attrs_loop(Tail(items), skips, attrs)

\* m_args = m_key[1:]
m_args_of(m_key) == Tail(m_key.els)

\* the whole parameter tuple, name and default included
arg_whole(arg) == arg

\* t = arg[1]
arg_type(arg) == arg.els[2]

\* for arg in m_args: ... for tm in skips: ...
RECURSIVE args_match(_, _)
args_match(m_args, skips) ==
  IF m_args = <<>> THEN "False"
  ELSE LET r == first_match(skips, arg_type(Head(m_args))) IN
       IF r \in {"True", "TypeError"} THEN r
       ELSE args_match(Tail(m_args), skips)

\* the body of the method loop: return type first, then the parameters
method_match(m_key, m_ret, skips) ==
  LET r == first_match(skips, m_ret) IN
  IF r \in {"True", "TypeError"} THEN r
  ELSE args_match(m_args_of(m_key), skips)

\* for m_key, m_ret in desc['methods'].copy().items(): ...
RECURSIVE methods_loop(_, _, _)
methods_loop(items, skips, methods) ==
  IF items = <<>> THEN [d |-> methods, raised |-> FALSE]
  ELSE LET r == method_match(Head(items).key, Head(items).value, skips) IN
       IF r = "TypeError" THEN [d |-> methods, raised |-> TRUE]
       ELSE IF r = "True"
            THEN methods_loop(Tail(items), skips,
                              del_item(methods, Head(items).key))
            ELSE methods_loop(Tail(items), skips, methods)

\* name=None
NoName == "<None>"

RECURSIVE concat_lists(_, _)
concat_lists(map, keys) ==
  IF keys = {} THEN <<>>
  ELSE LET k == CHOOSE k \in keys : TRUE IN
       map[k] \o concat_lists(map, keys \ {k})

\* a per-entity mapping read as one list for every class
skips_for_every_key(skiptypes, name) ==
  IF name = NoName THEN skiptypes.items
  ELSE concat_lists(skiptypes.map, DOMAIN skiptypes.map)

\* skips = rc.skiptypes if name is None else rc.skiptypes[name]
skips_for(skiptypes, name) ==
  IF name = NoName THEN skiptypes.items ELSE skiptypes.map[name]

\* None, where a descriptor is expected
NoneDesc == [name |-> "None", isclass |-> FALSE, attrs |-> <<>>, methods |-> <<>>]

\* the method without its final "return desc"
_modify_class_desc_no_return(skiptypes, desc, name) ==
  LET skips == skips_for(skiptypes, name)
      a == attrs_loop(desc.attrs, skips, desc.attrs)
      m == methods_loop(desc.methods, skips, desc.methods)
      d1 == [desc EXCEPT !.attrs = a.d]
      d2 == [d1 EXCEPT !.methods = m.d]
  IN IF a.raised THEN [desc |-> d1, ret |-> NoneDesc, raised |-> TRUE]
     ELSE [desc |-> d2, ret |-> NoneDesc, raised |-> m.raised]

\* desc: the descriptor as mutated in place; ret: the returned value;
\* raised: whether a TypeError escaped
_modify_class_desc(skiptypes, desc, name) ==
  LET skips == skips_for(skiptypes, name)
      a == attrs_loop(desc.attrs, skips, desc.attrs)
      m == methods_loop(desc.methods, skips, desc.methods)
      d1 == [desc EXCEPT !.attrs = a.d]
      d2 == [d1 EXCEPT !.methods = m.d]
  IN IF a.raised THEN [desc |-> d1, ret |-> d1, raised |-> TRUE]
     ELSE [desc |-> d2, ret |-> d2, raised |-> m.raised]

----------------------------------------------------------------------------
(* XDressPlugin.setup *)

compile(patterns, s) == [i \in 1..Len(patterns) |-> TypeMatcher(patterns[i], s)]

setup(skiptypes, s) ==
  IF skiptypes.kind = "dict"
  THEN [skiptypes EXCEPT
          !.map = [kls \in DOMAIN skiptypes.map |-> compile(skiptypes.map[kls], s)]]
  ELSE IF skiptypes.kind \in {"list", "tuple"}
  THEN [skiptypes EXCEPT !.kind = "list", !.items = compile(skiptypes.items, s)]
  ELSE skiptypes

Setup ==
  /\ pc = "start"
  /\ rc_skiptypes' = setup(rc_skiptypes, strict)
  /\ pc' = "ready"
  /\ UNCHANGED <<rc_env, todo, passes, env0, envPrev, strict>>
  /\ UNCHANGED fn_vars

----------------------------------------------------------------------------
(* XDressPlugin.execute, one descriptor at a time *)

MaxPasses == 2

\* the positions <<module, entity>> in the order the loops visit them
RECURSIVE positions_from(_, _)
positions_from(env, mi) ==
  IF mi > Len(env) THEN <<>>
  ELSE [ei \in 1..Len(env[mi].value) |-> <<mi, ei>>] \o positions_from(env, mi + 1)

isclassdesc(desc) == desc.isclass

\* execute is entered: the type of rc.skiptypes selects the loop, if any
Execute ==
  /\ \/ pc = "ready"
     \/ pc = "done" /\ passes < MaxPasses
  /\ passes' = passes + 1
  /\ envPrev' = rc_env
  /\ todo' = IF rc_skiptypes.kind \in {"dict", "list"}
             THEN positions_from(rc_env, 1) ELSE <<>>
  /\ pc' = IF todo' = <<>> THEN "done" ELSE "executing"
  /\ UNCHANGED <<rc_skiptypes, rc_env, env0, strict>>
  /\ UNCHANGED fn_vars

\* the loop body for the next descriptor
ExecuteStep ==
  /\ pc = "executing"
  /\ LET mi == Head(todo)[1]
         ei == Head(todo)[2]
         desc == rc_env[mi].value[ei].value
         applies ==
           /\ isclassdesc(desc)
           /\ rc_skiptypes.kind = "dict" => desc.name \in DOMAIN rc_skiptypes.map
         r == _modify_class_desc(rc_skiptypes, desc,
                IF rc_skiptypes.kind = "dict" THEN desc.name ELSE NoName)
         stored == IF rc_skiptypes.kind = "dict" /\ ~r.raised THEN r.ret ELSE r.desc
     IN /\ rc_env' = IF applies
                     THEN [rc_env EXCEPT ![mi].value[ei].value = stored]
                     ELSE rc_env
        /\ pc' = IF applies /\ r.raised THEN "raised"
                 ELSE IF Tail(todo) = <<>> THEN "done" ELSE "executing"
  /\ todo' = Tail(todo)
  /\ UNCHANGED <<rc_skiptypes, passes, env0, envPrev, strict>>
  /\ UNCHANGED fn_vars

----------------------------------------------------------------------------
(* The description models and configurations the plugin is run on *)

MaxSkips == 2

MaxDictSkips == 1

I32 == Str(<<"i", "3", "2">>)

Const == Str(<<"c", "o", "n", "s", "t">>)

Amp == Str(<<"&">>)

Vector == Str(<<"v", "e", "c">>)

Void == Str(<<"v", "o", "i", "d">>)

ConstI32 == Tup(<<I32, Const>>)

RefConstI32 == Tup(<<ConstI32, Amp>>)

RefConstVecF64 == Tup(<<Tup(<<Vector, F64, Const>>), Amp>>)

TypePool == {F64, I32, ConstI32, RefConstI32, RefConstVecF64}

PatternPool == {F64, I32, RefConstI32}

KeyNames == {"A", "B", "Zed"}

Item(k, v) == [key |-> k, value |-> v]

\* (name, type) and (name, type, default)
Arg(name, type) == Tup(<<Str(name), type>>)

ArgDefault(name, type, default) == Tup(<<Str(name), type, default>>)

ClassDesc(name, attrs, methods) ==
  [name |-> name, isclass |-> TRUE, attrs |-> attrs, methods |-> methods]

FuncDesc(name) ==
  [name |-> name, isclass |-> FALSE, attrs |-> <<>>, methods |-> <<>>]

\* two modules, two classes and a function; second parameter of g is
\* named f64 and its first parameter defaults to 'f64'
Env(ta, tb) ==
  << Item("m1",
       << Item("A", ClassDesc("A",
            << Item(Str(<<"x">>), ta), Item(Str(<<"y">>), tb) >>,
            << Item(Tup(<<Str(<<"f">>), Arg(<<"n">>, tb)>>), Void),
               Item(Tup(<<Str(<<"h">>)>>), ta) >>)),
          Item("fn", FuncDesc("fn")) >>),
     Item("m2",
       << Item("B", ClassDesc("B",
            << Item(Str(<<"z">>), ta) >>,
            << Item(Tup(<<Str(<<"g">>),
                          ArgDefault(<<"a">>, I32, F64),
                          Arg(<<"f", "6", "4">>, tb)>>), Void) >>)) >>) >>

Envs == {Env(ta, tb) : ta \in TypePool, tb \in TypePool}

ListsUpTo(S, n) == {<<>>} \cup SeqsUpTo(S, n)

NoMap == [k \in {} |-> <<>>]

Configs ==
  {[kind |-> k, items |-> <<>>, map |-> NoMap] : k \in {"NotSpecified", "None"}}
  \cup {[kind |-> k, items |-> ps, map |-> NoMap] :
          k \in {"list", "tuple"}, ps \in ListsUpTo(PatternPool, MaxSkips)}
  \cup {[kind |-> "dict", items |-> <<>>, map |-> m] :
          m \in UNION {[S -> ListsUpTo(PatternPool, MaxDictSkips)] :
                         S \in SUBSET KeyNames}}

NoFn ==
  /\ t = Zero
  /\ tm = TypeMatcher(Zero, FALSE)
  /\ flat = NotCalled
  /\ res = "pending"
  /\ fpc = "off"

PluginInit(stricts) ==
  /\ NoFn
  /\ rc_skiptypes \in Configs
  /\ rc_env \in Envs
  /\ env0 = rc_env
  /\ envPrev = rc_env
  /\ pc = "start"
  /\ todo = <<>>
  /\ passes = 0
  /\ strict \in stricts

Next == Setup \/ Execute \/ ExecuteStep

Spec == PluginInit({FALSE}) /\ [][Next]_vars

SpecFault == PluginInit({FALSE, TRUE}) /\ [][Next]_vars

----------------------------------------------------------------------------
(* The helpers applied to inputs drawn from the universe *)

NoFilter ==
  /\ rc_skiptypes = [kind |-> "NotSpecified", items |-> <<>>, map |-> <<>>]
  /\ rc_env = <<>>
  /\ pc = "off"
  /\ todo = <<>>
  /\ passes = 0
  /\ env0 = <<>>
  /\ envPrev = <<>>
  /\ strict = FALSE

FnInit(stricts) ==
  /\ NoFilter
  /\ t \in TypeExprs(MaxDepth)
  /\ tm \in {TypeMatcher(p, s) : p \in TypeExprs(MaxDepth - 1), s \in stricts}
  /\ flat = NotCalled
  /\ res = "pending"
  /\ fpc = "start"

CallFlatten ==
  /\ fpc = "start"
  /\ flat' = _flatten(t)
  /\ fpc' = "flattened"
  /\ UNCHANGED <<t, tm, res>>
  /\ UNCHANGED plugin_vars

CallMatchAnywhere ==
  /\ fpc = "flattened"
  /\ res' = _match_anywhere(tm, t)
  /\ fpc' = "matched"
  /\ UNCHANGED <<t, tm, flat>>
  /\ UNCHANGED plugin_vars

FnNext == CallFlatten \/ CallMatchAnywhere

SpecFn == FnInit({FALSE}) /\ [][FnNext]_vars

SpecFnFault == FnInit({FALSE, TRUE}) /\ [][FnNext]_vars

----------------------------------------------------------------------------
(* Vocabulary of the properties *)

Positions ==
  UNION {{<<mi, ei>> : ei \in 1..Len(env0[mi].value)} : mi \in 1..Len(env0)}

Orig(pos) == env0[pos[1]].value[pos[2]].value

Cur(pos) == rc_env[pos[1]].value[pos[2]].value

\* some matcher of the list answers True on x
AnyMatch(skips, x) ==
  \E i \in 1..Len(skips) : _match_anywhere(skips[i], x) = "True"

\* the types of the parameters of a method key
ParamTypes(m_key) == {m_key.els[i].els[2] : i \in 2..Len(m_key.els)}

SignatureTypes(m) == {m.value} \cup ParamTypes(m.key)

\* the descriptor d is d0 without exactly the members the list hits
FilteredBy(skips, d, d0) ==
  /\ items_of(d.attrs) = {a \in items_of(d0.attrs) : ~AnyMatch(skips, a.value)}
  /\ items_of(d.methods) =
       {m \in items_of(d0.methods) :
          ~\E x \in SignatureTypes(m) : AnyMatch(skips, x)}

EmptyConfig ==
  \/ rc_skiptypes.kind \in {"NotSpecified", "None"}
  \/ rc_skiptypes.kind \in {"list", "tuple"} /\ rc_skiptypes.items = <<>>
  \/ rc_skiptypes.kind = "dict" /\ DOMAIN rc_skiptypes.map = {}

SameKeys ==
  /\ Len(rc_env) = Len(env0)
  /\ \A mi \in 1..Len(env0) :
       /\ rc_env[mi].key = env0[mi].key
       /\ Len(rc_env[mi].value) = Len(env0[mi].value)
       /\ \A ei \in 1..Len(env0[mi].value) :
            rc_env[mi].value[ei].key = env0[mi].value[ei].key

----------------------------------------------------------------------------
(* Properties *)

\* C1: after setup and execute with a global list, every class has lost
\* exactly the attributes whose type some matcher matches anywhere and the
\* methods whose return type or some parameter type some matcher matches
\* anywhere; parameter names and defaults play no part.
C1_GlobalFilter ==
  (pc = "done" /\ rc_skiptypes.kind = "list") =>
    \A pos \in Positions :
      Orig(pos).isclass =>
        FilteredBy(rc_skiptypes.items, Cur(pos), Orig(pos))

\* C1 witness: a finished global run with 'f64' in the list in which class A
\* lost one attribute and one method and kept the others, and B kept g, whose
\* second parameter is named f64 and whose first defaults to 'f64'.
C1_Witness ==
  /\ pc = "done" /\ rc_skiptypes.kind = "list"
  /\ \E i \in 1..Len(rc_skiptypes.items) : rc_skiptypes.items[i].pattern = F64
  /\ Len(Cur(<<1, 1>>).attrs) = 1
  /\ Len(Cur(<<1, 1>>).methods) = 1
  /\ Len(Cur(<<2, 1>>).methods) = 1

\* C2: a matcher whose pattern is the leaf identifier L answers True on every
\* composite that contains L at any depth.
C2_LeafAnywhere ==
  (/\ fpc = "matched"
   /\ is_list_or_tuple(t)
   /\ is_str(tm.pattern)
   /\ tm.pattern \in LeavesOf(t)) => res = "True"

\* C2 witness: the leaf sits two levels down and the call answered True.
C2_Witness ==
  /\ fpc = "matched"
  /\ t = Tup(<<Tup(<<Zero, F64>>), Zero>>)
  /\ tm.pattern = F64
  /\ res = "True"

\* C3: with only composite patterns in the global list, a method is deleted
\* exactly when its return type or one of its parameter types equals one of
\* the patterns; sharing leaves with a pattern deletes nothing.
C3_CompositeExact ==
  (/\ pc = "done" /\ rc_skiptypes.kind = "list"
   /\ \A i \in 1..Len(rc_skiptypes.items) :
        is_list_or_tuple(rc_skiptypes.items[i].pattern)) =>
    \A pos \in Positions :
      \A m \in items_of(Orig(pos).methods) :
        (m \notin items_of(Cur(pos).methods)) <=>
          \E x \in SignatureTypes(m) :
            \E i \in 1..Len(rc_skiptypes.items) :
              x = rc_skiptypes.items[i].pattern

\* C3 witness: pattern (('int32','const'),'&'); f has a parameter of exactly
\* that type and is gone, h returns plain int32 and is kept.
C3_Witness ==
  /\ pc = "done" /\ rc_skiptypes.kind = "list"
  /\ Len(rc_skiptypes.items) = 1
  /\ rc_skiptypes.items[1].pattern = RefConstI32
  /\ env0 = Env(I32, RefConstI32)
  /\ keys_of(Cur(<<1, 1>>).methods) = {Tup(<<Str(<<"h">>)>>)}

\* C4: with a per-entity mapping no error is raised, no module or entity key
\* appears or disappears, a class whose name is not a key is left as it was,
\* and after the run a class whose name is a key is filtered by the list
\* stored under its name.
C4_PerEntity ==
  rc_skiptypes.kind = "dict" =>
    /\ pc # "raised"
    /\ SameKeys
    /\ \A pos \in Positions :
         LET d0 == Orig(pos) IN
         /\ (~d0.isclass \/ d0.name \notin DOMAIN rc_skiptypes.map) =>
              Cur(pos) = d0
         /\ (pc = "done" /\ d0.isclass /\ d0.name \in DOMAIN rc_skiptypes.map) =>
              FilteredBy(rc_skiptypes.map[d0.name], Cur(pos), d0)

\* C4 witness: the mapping has a key for A and a key naming no class; A lost
\* a member, B carries the same types and kept everything.
C4_Witness ==
  /\ pc = "done" /\ rc_skiptypes.kind = "dict"
  /\ DOMAIN rc_skiptypes.map = {"A", "Zed"}
  /\ rc_skiptypes.map["Zed"] # <<>>
  /\ Cur(<<1, 1>>) # Orig(<<1, 1>>)
  /\ env0 \in {Env(ty, ty) : ty \in TypePool}
  /\ Cur(<<2, 1>>) = Orig(<<2, 1>>)

\* C5: with the configuration unset, None or empty, the description model
\* stays what it was and nothing is raised.
C5_EmptyConfig == EmptyConfig => (rc_env = env0 /\ pc # "raised")

\* C5 witness: a finished run with an empty list.
C5_Witness ==
  /\ pc = "done" /\ passes = 1
  /\ rc_skiptypes.kind = "list" /\ rc_skiptypes.items = <<>>

\* C6: an execute call on a model an earlier execute call has filtered
\* changes nothing.
C6_Idempotent == (pc = "done" /\ passes >= 2) => rc_env = envPrev

\* C6 witness: the second call has finished and the first had deleted
\* members.
C6_Witness == pc = "done" /\ passes = 2 /\ rc_env # env0

\* C7: a failure of matches never leaves _match_anywhere, so the pass is
\* never aborted.
C7_FailureAbsorbed == pc # "raised"

\* C8: _flatten returns a non-empty sequence, the singleton of t for a leaf
\* t (a string or a non-iterable atom).
C8_FlattenLeaf ==
  fpc # "start" =>
    /\ flat.tag = "list"
    /\ flat.els # <<>>
    /\ ~is_list_or_tuple(t) => flat = PyList(<<t>>)

\* C9: no module and no entity is added or removed, every descriptor keeps
\* its name and kind, and its attrs and methods hold only original items.
C9_OnlyMembersRemoved ==
  /\ SameKeys
  /\ \A pos \in Positions :
       /\ Cur(pos).name = Orig(pos).name
       /\ Cur(pos).isclass = Orig(pos).isclass
       /\ items_of(Cur(pos).attrs) \subseteq items_of(Orig(pos).attrs)
       /\ items_of(Cur(pos).methods) \subseteq items_of(Orig(pos).methods)

\* C9 witness: the pass is under way and has already deleted a member.
C9_Witness == pc = "executing" /\ rc_env # env0

\* C10: when matches raises on the whole composite candidate, the answer is
\* True exactly when matches is True for a leaf of the flattened candidate.
C10_FallbackAfterFailure ==
  (/\ fpc = "matched"
   /\ is_list_or_tuple(t)
   /\ matches(tm, t) = "TypeError") =>
    (res = "True" <=>
       \E i \in 1..Len(_flatten(t).els) :
         matches(tm, _flatten(t).els[i]) = "True")

====
